---- MODULE Spec2Model ----
(***************************************************************************)
(* Model of app.py, the Streamlit front end "SWOT -> Problem Statements -> *)
(* Project Charters (S2C)".                                                *)
(*                                                                         *)
(* Python str values are TLC strings; Len, \o and SubSeq act on them       *)
(* character by character.  Positions are 1-based here (Python's are       *)
(* 0-based), so text[idx:] is SubSeq(text, idx, Len(text)) with idx one    *)
(* larger than Python's.  A local variable of the script that has not been *)
(* assigned is <<>>, an assigned one is <<value>>.                         *)
(*                                                                         *)
(* Characters the TLA+ lexer refuses inside a string are written with an   *)
(* ASCII stand-in in the two prompt templates (en dash as "-", the         *)
(* greater-or-equal sign as ">=", check and cross marks as "v" and "x");   *)
(* the warning sign of call_openai's messages is kept without its          *)
(* variation selector.  None of these occurs in a string the program       *)
(* searches for.                                                           *)
(***************************************************************************)
EXTENDS Integers, Sequences, FiniteSets, TLC

VARIABLES
    client,               \* "None" or "OpenAI": get_openai_client()'s cached result
    include_tiers,        \* the checkbox
    tiers_selected,       \* the multiselect's value, in the order the widget returns
    strengths_text,       \* the four text areas
    weaknesses_text,
    opportunities_text,
    threats_text,
    pc,                   \* position of the running script
    user_prompt,          \* locals of the "Generate Portfolio" branch
    output,
    csv_block,
    page,                 \* what the current run has put on the page, in order
    api_calls,            \* calls of client.chat.completions.create in this run
    exc,                  \* exception that left a function of the script, or "none"
    config,               \* what get_openai_client() found when the process started
    api_result,           \* what the chat-completion call of this run did
    parse_ok,             \* whether pd.read_csv accepted the block in this run
    steps                 \* number of inputs consumed so far (bounded)

vars == <<client, include_tiers, tiers_selected, strengths_text, weaknesses_text,
          opportunities_text, threats_text, pc, user_prompt, output, csv_block,
          page, api_calls, exc, config, api_result, parse_ok, steps>>

form == <<include_tiers, tiers_selected, strengths_text, weaknesses_text,
          opportunities_text, threats_text>>

None == <<>>
Some(v) == <<v>>

\* ------------------------------------------------------------------ bounds

MaxChunks == 3      \* chunks appended to a response text
MaxEdits == 3       \* form edits before a composition
MaxRuns == 2        \* script runs after the first one

\* ------------------------------------------------------------- str methods

Min(S) == CHOOSE x \in S : \A y \in S : x <= y

\* positions at which h occurs in s
Occurrences(s, h) ==
    {i \in 1..(Len(s) - Len(h) + 1) : SubSeq(s, i, i + Len(h) - 1) = h}

\* h in s
Contains(s, h) == Occurrences(s, h) # {}

\* the least of a set of positions; 0 when there is none
First(occ) == IF occ = {} THEN 0 ELSE Min(occ)

\* s.index(h): the first occurrence; 0 stands for ValueError
Index(s, h) == First(Occurrences(s, h))

\* s.split(sep): the pieces between non-overlapping occurrences, left to right
RECURSIVE Split(_, _)
SplitAt(s, sep, i) ==
    IF i = 0 THEN <<s>>
    ELSE <<SubSeq(s, 1, i - 1)>> \o Split(SubSeq(s, i + Len(sep), Len(s)), sep)

Split(s, sep) == SplitAt(s, sep, Index(s, sep))

\* the whitespace str.strip() removes, as far as it occurs in the texts here
Whitespace == {" ", "\t", "\n", "\r", "\f"}

RECURSIVE LStrip(_)
LStrip(s) ==
    IF s # "" /\ SubSeq(s, 1, 1) \in Whitespace
    THEN LStrip(SubSeq(s, 2, Len(s))) ELSE s

RECURSIVE RStrip(_)
RStrip(s) ==
    IF s # "" /\ SubSeq(s, Len(s), Len(s)) \in Whitespace
    THEN RStrip(SubSeq(s, 1, Len(s) - 1)) ELSE s

\* s.strip()
Strip(s) == RStrip(LStrip(s))

\* a function's outcome: exc = "none" and the value returned, or the exception raised
Return(v) == [exc |-> "none", value |-> v]
Raise(e) == [exc |-> e, value |-> ""]

AllWhitespace(s) == \A i \in 1..Len(s) : SubSeq(s, i, i) \in Whitespace

\* sep.join(xs)
RECURSIVE Join(_, _)
Join(sep, xs) ==
    IF xs = <<>> THEN ""
    ELSE IF Len(xs) = 1 THEN xs[1]
    ELSE xs[1] \o sep \o Join(sep, Tail(xs))

\* ---------------------------------------------------------------- constants

DMAIC_DEPARTMENTS ==
    <<"Sales Ops", "Service Ops", "Finance Ops", "Procurement", "IT", "QA",
      "Compliance", "Supply Chain", "Manufacturing", "Shared Services", "Training", "PMO">>

ORG_TIERS ==
    <<"Executive Tier (CEO, COO, CFO, CTO, President)",
      "Senior Management Tier (Vice Presidents, Directors, General Managers)",
      "Middle Management Tier (Managers, Team Leaders, Department Heads)",
      "Supervisory Tier (Supervisors, Shift Leaders, Coordinators)",
      "Operational Tier (Staff, Associates, Technicians, Entry-Level Employees)">>

\* the multiselect's default
DefaultTiers == <<ORG_TIERS[2], ORG_TIERS[3], ORG_TIERS[5]>>

\* the three context inputs, kept at their default values
region == "APAC"
industry == "Shared Services"
fy_start == "Jan 1"

\* --------------------------------------------------------- prompt templates

SYSTEM_TEXT_RAW ==
    "\n" \o
    "You are an AI Lean Six Sigma Black Belt coach. You ingest SWOT sticky notes (70-100 items), cluster them by theme, and produce:\n" \o
    "1) a Theme Map per quadrant,\n" \o
    "2) compliant Problem Statements (specific, data-driven, one problem, no solution),\n" \o
    "3) a prioritized list (Impact × Controllability, 0-5 each, with rationale),\n" \o
    "4) draft DMAIC Project Charters with departments, CTQs, savings band, duration, and start date.\n" \o
    "\n" \o
    "Follow IASSC/ASQ BoK structure. Be explicit and concise. Use only information inferred from notes plus reasonable Lean heuristics; do not invent precise numbers without labeling them as estimates.\n"

\* textwrap.dedent(...) removes nothing: the first line carries no indent
SYSTEM_TEXT == Strip(SYSTEM_TEXT_RAW)

USER_TEMPLATE_RAW ==
    "\n" \o
    "Context:\n" \o
    "- Region/Market (optional): {region}\n" \o
    "- Industry (optional): {industry}\n" \o
    "- Fiscal Year start (e.g., Jan 1): {fy_start}\n" \o
    "\n" \o
    "Input Notes:\n" \o
    "Strengths:\n" \o
    "{strengths_text}\n" \o
    "\n" \o
    "Weaknesses:\n" \o
    "{weaknesses_text}\n" \o
    "\n" \o
    "Opportunities:\n" \o
    "{opportunities_text}\n" \o
    "\n" \o
    "Threats:\n" \o
    "{threats_text}\n" \o
    "\n" \o
    "Tasks:\n" \o
    "A) Cluster notes into 2-5 themes per quadrant. Name each theme and show a 1-2 line rationale.\n" \o
    "B) From Weaknesses and Threats only, propose 3-8 Problem Statements that obey ALL rules:\n" \o
    "   - Specific & data-driven (use counts/percents/ranges if present; else clearly mark as \"estimate\").\n" \o
    "   - One problem per statement.\n" \o
    "   - No solutions.\n" \o
    "C) Score each proposed problem: Impact (0-5) × Controllability (0-5). Explain in one sentence.\n" \o
    "D) For top 3 problems, generate a one-page DMAIC Charter with:\n" \o
    "   - Title, Problem Statement, Business Case\n" \o
    "   - Goal (SMART, with target and date)\n" \o
    "   - Scope / Out of Scope\n" \o
    "   - CTQs & baseline (state if estimated)\n" \o
    "   - Departments / Teams to involve (choose from: {dept_menu})\n" \o
    "   - Savings band (Low: < $100k; Med: $100k-$500k; High: $500k-$1.5M; Very High: > $1.5M) + rationale\n" \o
    "   - Duration (Kaizen 2-4w, DMAIC Light 8-12w, Full DMAIC 16-24w) + rationale\n" \o
    "   - Proposed Start Date (nearest quarter boundary or >=30 days from today, aligned to {fy_start})\n" \o
    "   - High-level DMAIC plan (bulleted by phase)\n" \o
    "E) Return a compact portfolio table (CSV-style) listing:\n" \o
    "   Problem_ID, Theme, Impact, Control, Savings_Band, Duration, Dept(s), Proposed_Start{tier_col_hint}.\n" \o
    "\n" \o
    "Output format:\n" \o
    "1) THEME MAP\n" \o
    "2) PROBLEM STATEMENTS (rule-check table: v/x for \"specific\", \"single problem\", \"no solution\")\n" \o
    "3) PRIORITIZED LIST (with Impact×Control and rationale)\n" \o
    "4) PROJECT CHARTERS (3){tier_block_instruction}\n" \o
    "5) PORTFOLIO TABLE\n" \o
    "\n" \o
    "{tier_guidance}\n"

\* textwrap.dedent(...) removes nothing: the first line carries no indent
USER_TEMPLATE == Strip(USER_TEMPLATE_RAW)

\* -------------------------------------------------------------- str.format

\* p put in front of the value of an outcome that raised nothing
Prepend(p, r) == IF r.exc = "none" THEN Return(p \o r.value) ELSE r

\* positions of the braces of t
Braces(t) == Occurrences(t, "{") \cup Occurrences(t, "}")

\* faulty variant: the text put in for a field is scanned for fields again
RECURSIVE Format_Rescan(_, _)
Format_RescanAt(t, kw, i, j) ==
    IF i = 0 THEN Return(t)
    ELSE IF SubSeq(t, i, i) = "}" \/ j = 0 THEN Raise("ValueError")
    ELSE IF SubSeq(t, i + 1, i + j - 1) \notin DOMAIN kw THEN Raise("KeyError")
    ELSE Prepend(SubSeq(t, 1, i - 1),
                 Format_Rescan(kw[SubSeq(t, i + 1, i + j - 1)]
                               \o SubSeq(t, i + j + 1, Len(t)), kw))

Format_Rescan(t, kw) ==
    Format_RescanAt(t, kw, First(Braces(t)),
                    Index(SubSeq(t, First(Braces(t)) + 1, Len(t)), "}"))

\* the scan of t from position p on; bs holds the positions of t's braces
RECURSIVE FormatFrom(_, _, _, _)

\* the field "{name}" opened at i and closed at j
FormatField(t, kw, bs, p, i, j) ==
    IF j = 0 THEN Raise("ValueError")
    ELSE IF SubSeq(t, i + 1, j - 1) \notin DOMAIN kw THEN Raise("KeyError")
    ELSE Prepend(SubSeq(t, p, i - 1) \o kw[SubSeq(t, i + 1, j - 1)],
                 FormatFrom(t, kw, bs, j + 1))

\* the next brace is at i (0: there is none)
FormatBrace(t, kw, bs, p, i) ==
    IF i = 0 THEN Return(SubSeq(t, p, Len(t)))
    ELSE IF SubSeq(t, i, i + 1) \in {"{{", "}}"}
    THEN Prepend(SubSeq(t, p, i), FormatFrom(t, kw, bs, i + 2))
    ELSE IF SubSeq(t, i, i) = "}" THEN Raise("ValueError")
    ELSE FormatField(t, kw, bs, p, i,
                     First({c \in bs : c > i /\ SubSeq(t, c, c) = "}"}))

FormatFrom(t, kw, bs, p) == FormatBrace(t, kw, bs, p, First({b \in bs : b >= p}))

\* t.format(**kw): one pass over t; "{{" and "}}" are literal braces, "{name}"
\* is replaced by kw[name], which is not scanned again
Format(t, kw) == FormatFrom(t, kw, Braces(t), 1)

\* ------------------------------------------------------- build_user_prompt

\* faulty variant: the test forgets the selection
TiersIncluded_IgnoresSelection(inc, tiers) == inc

\* include_tiers and tiers_selected
TiersIncluded(inc, tiers) == inc /\ tiers # <<>>

TierBlockInstruction(inc, tiers) ==
    IF TiersIncluded(inc, tiers)
    THEN "\n   - Include a field: Organizational Tier(s) Impacted, with governance notes aligned to selected tiers."
    ELSE ""

TierColHint(inc, tiers) ==
    IF TiersIncluded(inc, tiers) THEN ", Org_Tier(s)" ELSE ""

TierGuidance(inc, tiers) ==
    IF TiersIncluded(inc, tiers)
    THEN "Organizational Tier guidance:\n"
         \o "- Selected tiers (high → low): " \o Join(" > ", tiers) \o "\n"
         \o "- Align stakeholder engagement, approvals, and communications to these tiers.\n"
    ELSE ""

BuildUserPrompt(inc, tiers, s, w, o, t) ==
    Format(USER_TEMPLATE,
           [region |-> region,
            industry |-> industry,
            fy_start |-> fy_start,
            strengths_text |-> Strip(s),
            weaknesses_text |-> Strip(w),
            opportunities_text |-> Strip(o),
            threats_text |-> Strip(t),
            dept_menu |-> Join(", ", DMAIC_DEPARTMENTS),
            tier_block_instruction |-> TierBlockInstruction(inc, tiers),
            tier_col_hint |-> TierColHint(inc, tiers),
            tier_guidance |-> TierGuidance(inc, tiers)])

\* the three fragments and the prompt for the form as it stands
tier_block_instruction == TierBlockInstruction(include_tiers, tiers_selected)
tier_col_hint == TierColHint(include_tiers, tiers_selected)
tier_guidance == TierGuidance(include_tiers, tiers_selected)

build_user_prompt ==
    BuildUserPrompt(include_tiers, tiers_selected, strengths_text,
                    weaknesses_text, opportunities_text, threats_text)

\* ------------------------------------------------------------ form widgets

Note1 == "  Approvals late {SLA}, 100% manual\n"
Note2 == "{region} has no Org_Tier(s) owner"
NoteValues == {"", Note1, Note2}

\* the checkbox: unchecked, the multiselect is not drawn and tiers_selected
\* is []; checked again, the multiselect comes back with its default
ToggleIncludeTiers ==
    /\ include_tiers' = ~include_tiers
    /\ tiers_selected' = IF include_tiers THEN <<>> ELSE DefaultTiers
    /\ UNCHANGED <<strengths_text, weaknesses_text, opportunities_text, threats_text>>

\* the multiselect returns the options in the order they were picked
SelectTier ==
    /\ include_tiers
    /\ \E k \in 1..Len(ORG_TIERS) :
          /\ \A n \in 1..Len(tiers_selected) : tiers_selected[n] # ORG_TIERS[k]
          /\ tiers_selected' = Append(tiers_selected, ORG_TIERS[k])
    /\ UNCHANGED <<include_tiers, strengths_text, weaknesses_text,
                   opportunities_text, threats_text>>

DeselectTier ==
    /\ include_tiers
    /\ \E n \in 1..Len(tiers_selected) :
          tiers_selected' = SubSeq(tiers_selected, 1, n - 1)
                            \o SubSeq(tiers_selected, n + 1, Len(tiers_selected))
    /\ UNCHANGED <<include_tiers, strengths_text, weaknesses_text,
                   opportunities_text, threats_text>>

ClearTiers ==
    /\ include_tiers
    /\ tiers_selected # <<>>
    /\ tiers_selected' = <<>>
    /\ UNCHANGED <<include_tiers, strengths_text, weaknesses_text,
                   opportunities_text, threats_text>>

EditStrengths ==
    /\ \E v \in NoteValues \ {strengths_text} : strengths_text' = v
    /\ UNCHANGED <<include_tiers, tiers_selected, weaknesses_text,
                   opportunities_text, threats_text>>

EditWeaknesses ==
    /\ \E v \in NoteValues \ {weaknesses_text} : weaknesses_text' = v
    /\ UNCHANGED <<include_tiers, tiers_selected, strengths_text,
                   opportunities_text, threats_text>>

EditOpportunities ==
    /\ \E v \in NoteValues \ {opportunities_text} : opportunities_text' = v
    /\ UNCHANGED <<include_tiers, tiers_selected, strengths_text,
                   weaknesses_text, threats_text>>

EditThreats ==
    /\ \E v \in NoteValues \ {threats_text} : threats_text' = v
    /\ UNCHANGED <<include_tiers, tiers_selected, strengths_text,
                   weaknesses_text, opportunities_text>>

EditForm ==
    \/ ToggleIncludeTiers
    \/ SelectTier
    \/ DeselectTier
    \/ ClearTiers
    \/ EditStrengths
    \/ EditWeaknesses
    \/ EditOpportunities
    \/ EditThreats

\* ------------------------------------------------------- extract_csv_block

HeaderA == "Problem_ID,Theme,Impact,Control,Impact×Control,Savings_Band,Duration,Dept(s),Proposed_Start,Org_Tier(s)"
HeaderB == "Problem_ID,Theme,Impact,Control,Savings_Band,Duration,Dept(s),Proposed_Start,Org_Tier(s)"
HeaderC == "Problem_ID,Theme,Impact,Control,Savings_Band,Duration,Dept(s),Proposed_Start"

KNOWN_HEADERS_Reversed == <<HeaderC, HeaderB, HeaderA>>

\* the list the for loop walks
KNOWN_HEADERS == <<HeaderA, HeaderB, HeaderC>>

\* faulty variant: the block ends at the first newline
BlockAt_SplitOnNewline(text, idx) ==
    Strip(Split(SubSeq(text, idx, Len(text)), "\n")[1])

\* text[idx:].split("\n\n")[0].strip()
BlockAt(text, idx) == Strip(Split(SubSeq(text, idx, Len(text)), "\n\n")[1])

\* faulty variant: text.index(header) without the "header in text" test before it
RECURSIVE ScanHeaders_NoGuard(_, _)
ScanHeaders_NoGuard(text, k) ==
    IF k > Len(KNOWN_HEADERS) THEN Return("")
    ELSE LET idx == Index(text, KNOWN_HEADERS[k])
         IN  IF idx = 0 THEN Raise("ValueError")
             ELSE Return(BlockAt(text, idx))

\* the for loop from its k-th header on
RECURSIVE ScanHeaders(_, _)
ScanHeaders(text, k) ==
    IF k > Len(KNOWN_HEADERS) THEN Return("")
    ELSE LET header == KNOWN_HEADERS[k]
         IN  IF Contains(text, header)
             THEN LET idx == Index(text, header)
                  IN  IF idx = 0 THEN Raise("ValueError")
                      ELSE Return(BlockAt(text, idx))
             ELSE ScanHeaders(text, k + 1)

\* text is None (absent) or Some(str); "not text" holds for None and for "".
\* text.splitlines() is computed and never read, and raises for no str.
extract_csv_block(text) ==
    IF text = None \/ text = Some("") THEN Return("") ELSE ScanHeaders(text[1], 1)

\* ------------------------------------------- extractor on bounded responses

Row1 == "P1,Cycle time,4,3,Med,DMAIC Light,QA,Q1 FY25"
Row2 == "P2,Rework,5,2,High,Full DMAIC,Finance Ops,Q2 FY25"
Prose == "Next steps: confirm sponsors."

\* header (c), two data rows: the table of the spec's exact-match example
TableC == HeaderC \o "\n" \o Row1 \o "\n" \o Row2

Seeds == {"", TableC}
Chunks == {HeaderA, HeaderB, HeaderC, Row1, Prose, "\n", " "}

InitExtract ==
    /\ client = "OpenAI"
    /\ include_tiers = TRUE
    /\ tiers_selected = <<>>
    /\ strengths_text = "" /\ weaknesses_text = ""
    /\ opportunities_text = "" /\ threats_text = ""
    /\ pc = "text"
    /\ user_prompt = None
    /\ output \in {None} \cup {Some(s) : s \in Seeds}
    /\ csv_block = None
    /\ page = <<>>
    /\ api_calls = 0
    /\ exc = "none"
    /\ config = [import_ok |-> TRUE, api_key |-> "sk-test", ctor_ok |-> TRUE]
    /\ api_result = None
    /\ parse_ok = None
    /\ steps = 0

\* the response text grows by one chunk
AppendChunk ==
    /\ pc = "text"
    /\ output # None
    /\ steps < MaxChunks
    /\ \E c \in Chunks : output' = Some(output[1] \o c)
    /\ steps' = steps + 1
    /\ UNCHANGED <<client, form, pc, user_prompt, csv_block, page, api_calls, exc,
                   config, api_result, parse_ok>>

\* csv_block = extract_csv_block(output)
ApplyExtract ==
    /\ pc = "text"
    /\ LET r == extract_csv_block(output)
       IN  /\ exc' = r.exc
           /\ csv_block' = IF r.exc = "none" THEN Some(r.value) ELSE None
    /\ pc' = "extracted"
    /\ UNCHANGED <<client, form, user_prompt, output, page, api_calls, steps,
                   config, api_result, parse_ok>>

NextExtract == AppendChunk \/ ApplyExtract

SpecExtract == InitExtract /\ [][NextExtract]_vars

\* ------------------------------------------- composer on bounded form edits

InitCompose ==
    /\ client = "OpenAI"
    /\ include_tiers = TRUE
    /\ tiers_selected = DefaultTiers
    /\ strengths_text = "" /\ weaknesses_text = ""
    /\ opportunities_text = "" /\ threats_text = ""
    /\ pc = "form"
    /\ user_prompt = None
    /\ output = None
    /\ csv_block = None
    /\ page = <<>>
    /\ api_calls = 0
    /\ exc = "none"
    /\ config = [import_ok |-> TRUE, api_key |-> "sk-test", ctor_ok |-> TRUE]
    /\ api_result = None
    /\ parse_ok = None
    /\ steps = 0

EditStep ==
    /\ pc = "form"
    /\ steps < MaxEdits
    /\ EditForm
    /\ steps' = steps + 1
    /\ UNCHANGED <<client, pc, user_prompt, output, csv_block, page, api_calls, exc,
                   config, api_result, parse_ok>>

\* user_prompt = build_user_prompt()
ApplyCompose ==
    /\ pc = "form"
    /\ LET r == build_user_prompt
       IN  /\ exc' = r.exc
           /\ user_prompt' = IF r.exc = "none" THEN Some(r.value) ELSE None
    /\ pc' = "composed"
    /\ UNCHANGED <<client, form, output, csv_block, page, api_calls, steps,
                   config, api_result, parse_ok>>

NextCompose == EditStep \/ ApplyCompose

SpecCompose == InitCompose /\ [][NextCompose]_vars

\* ------------------------------------------------------ get_openai_client

\* cfg: whether "from openai import OpenAI" worked, the key found in the
\* secrets or the environment, whether OpenAI(api_key=...) returned
get_openai_client(cfg) ==
    IF ~cfg.import_ok THEN "None"
    ELSE IF cfg.api_key = "" THEN "None"
    ELSE IF ~cfg.ctor_ok THEN "None"
    ELSE "OpenAI"

Configs ==
    {[import_ok |-> TRUE, api_key |-> "sk-test", ctor_ok |-> TRUE],
     [import_ok |-> FALSE, api_key |-> "sk-test", ctor_ok |-> TRUE],
     [import_ok |-> TRUE, api_key |-> "", ctor_ok |-> TRUE],
     [import_ok |-> TRUE, api_key |-> "sk-test", ctor_ok |-> FALSE]}

\* ------------------------------------------------------------ call_openai

ADVISORY == "⚠ OpenAI client not initialized. Add your API key in Secrets or env."

ErrorMessage(e) == "⚠ Error generating response: " \o e

\* what client.chat.completions.create(...) may do: return a completion with
\* a text, return one whose content is None, or raise
ApiErrors == {"Connection error.", "Error code: 401 - Incorrect API key provided"}

Responses ==
    {"",
     Prose,
     "\n4) PORTFOLIO TABLE\n" \o TableC \o "\n\n" \o Prose \o "\n",
     HeaderA \o "\n" \o Row1 \o ",Senior Management\n"}

ApiOutcomes ==
    {[kind |-> "content", text |-> r] : r \in Responses}
    \cup {[kind |-> "no_content", text |-> ""]}
    \cup {[kind |-> "raise", text |-> e] : e \in ApiErrors}

\* the outcome of a call_openai that made `calls` calls of create(...)
Called(calls, r) == [calls |-> calls, exc |-> r.exc, value |-> r.value]

\* faulty variant: no try/except around the call
call_openai_NoCatch(cl, outcome) ==
    IF cl = "None" THEN Called(0, Return(ADVISORY))
    ELSE IF outcome.kind = "raise" THEN Called(1, Raise("APIError"))
    ELSE IF outcome.kind = "no_content" THEN Called(1, Raise("AttributeError"))
    ELSE Called(1, Return(Strip(outcome.text)))

\* faulty variant: no "client is None" test; client.chat fails inside the try
call_openai_NoClientCheck(cl, outcome) ==
    IF cl = "None"
    THEN Called(0, Return(ErrorMessage("'NoneType' object has no attribute 'chat'")))
    ELSE IF outcome.kind = "raise" THEN Called(1, Return(ErrorMessage(outcome.text)))
    ELSE IF outcome.kind = "no_content"
    THEN Called(1, Return(ErrorMessage("'NoneType' object has no attribute 'strip'")))
    ELSE Called(1, Return(Strip(outcome.text)))

\* call_openai with client cl, when create(...) does `outcome`
call_openai(cl, outcome) ==
    IF cl = "None" THEN Called(0, Return(ADVISORY))
    ELSE IF outcome.kind = "raise" THEN Called(1, Return(ErrorMessage(outcome.text)))
    ELSE IF outcome.kind = "no_content"
    THEN Called(1, Return(ErrorMessage("'NoneType' object has no attribute 'strip'")))
    ELSE Called(1, Return(Strip(outcome.text)))

\* ------------------------------------------------------------ page elements

El(el, label, data, file) == [el |-> el, label |-> label, data |-> data, file |-> file]

Text(t) == <<"str", t>>
\* t.encode("utf-8")
Utf8(t) == <<"utf-8", t>>
\* pd.read_csv(io.StringIO(block)).to_csv(index=False).encode("utf-8")
ToCsvUtf8(block) == <<"utf-8", "DataFrame.to_csv", block>>

\* st.subheader("Model Output"); st.markdown(output)
OutputSection(out) ==
    <<El("subheader", "Model Output", Text(""), ""),
      El("markdown", "", Text(out), "")>>

\* faulty variant: no download when pd.read_csv fails
CsvSection_NoFallback(block, ok) ==
    IF block = "" THEN <<>>
    ELSE <<El("markdown", "", Text("---"), ""),
           El("subheader", "Portfolio CSV", Text(""), ""),
           El("code", "csv", Text(block), "")>>
         \o (IF ok
             THEN <<El("dataframe", "", Text(block), ""),
                    El("download_button", "Download portfolio.csv",
                       ToCsvUtf8(block), "portfolio.csv")>>
             ELSE <<>>)

\* "if csv_block:" and its body; ok tells whether pd.read_csv accepts the block
CsvSection(block, ok) ==
    IF block = "" THEN <<>>
    ELSE <<El("markdown", "", Text("---"), ""),
           El("subheader", "Portfolio CSV", Text(""), ""),
           El("code", "csv", Text(block), "")>>
         \o (IF ok
             THEN <<El("dataframe", "", Text(block), ""),
                    El("download_button", "Download portfolio.csv",
                       ToCsvUtf8(block), "portfolio.csv")>>
             ELSE <<El("download_button", "Download portfolio.csv",
                       Utf8(block), "portfolio.csv")>>)

\* the right column's download button
CombinedDownload(prompt) ==
    <<El("download_button", "Download Combined Prompt (System + User)",
         Utf8(SYSTEM_TEXT \o "\n\n" \o prompt), "s2c_prompt_openai.txt")>>

\* the two expanders
Previews(prompt) ==
    <<El("markdown", "", Text("---"), ""),
      El("code", "Show System Instruction", Text(SYSTEM_TEXT), ""),
      El("code", "Show Composed User Prompt", Text(prompt), "")>>

\* ------------------------------------------------------------- script runs

Init ==
    /\ config \in Configs
    /\ client = get_openai_client(config)
    /\ include_tiers = TRUE
    /\ tiers_selected = DefaultTiers
    /\ strengths_text = "" /\ weaknesses_text = ""
    /\ opportunities_text = "" /\ threats_text = ""
    /\ pc = "right"
    /\ user_prompt = None
    /\ output = None
    /\ csv_block = None
    /\ page = <<>>
    /\ api_calls = 0
    /\ exc = "none"
    /\ api_result = None
    /\ parse_ok = None
    /\ steps = 0

\* faulty variant: the locals of the last run are still there
FreshLocals_Kept == UNCHANGED <<user_prompt, output, csv_block>>

\* a run starts with none of the branch's locals assigned
FreshLocals == user_prompt' = None /\ output' = None /\ csv_block' = None

\* every interaction reruns the script from the top with an empty page
StartRun ==
    /\ pc = "idle"
    /\ steps < MaxRuns
    /\ steps' = steps + 1
    /\ page' = <<>>
    /\ FreshLocals
    /\ api_calls' = 0
    /\ api_result' = None
    /\ parse_ok' = None
    /\ UNCHANGED <<client, config, exc>>

\* a widget changed: the button is not pressed in this run
EditAndRerun ==
    /\ StartRun
    /\ EditForm
    /\ pc' = "right"

\* "Generate Portfolio" pressed
ClickGenerate ==
    /\ StartRun
    /\ pc' = "compose"
    /\ UNCHANGED form

\* user_prompt = build_user_prompt()
Compose ==
    /\ pc = "compose"
    /\ LET r == build_user_prompt
       IN  IF r.exc = "none"
           THEN user_prompt' = Some(r.value) /\ pc' = "call" /\ exc' = exc
           ELSE user_prompt' = user_prompt /\ pc' = "crashed" /\ exc' = r.exc
    /\ UNCHANGED <<client, config, form, output, csv_block, page, api_calls,
                   api_result, parse_ok, steps>>

\* output = call_openai(SYSTEM_TEXT, user_prompt, model_name, temperature)
CallOpenAI ==
    /\ pc = "call"
    /\ \E outcome \in ApiOutcomes :
          LET r == call_openai(client, outcome)
          IN  /\ api_calls' = api_calls + r.calls
              /\ api_result' = IF r.calls = 0 THEN None ELSE Some(outcome)
              /\ IF r.exc = "none"
                 THEN output' = Some(r.value) /\ pc' = "show_output" /\ exc' = exc
                 ELSE output' = output /\ pc' = "crashed" /\ exc' = r.exc
    /\ UNCHANGED <<client, config, form, user_prompt, csv_block, page, parse_ok, steps>>

\* st.subheader("Model Output"); st.markdown(output)
RenderOutput ==
    /\ pc = "show_output"
    /\ page' = page \o OutputSection(output[1])
    /\ pc' = "extract"
    /\ UNCHANGED <<client, config, form, user_prompt, output, csv_block, api_calls,
                   exc, api_result, parse_ok, steps>>

\* csv_block = extract_csv_block(output)
Extract ==
    /\ pc = "extract"
    /\ LET r == extract_csv_block(output)
       IN  IF r.exc = "none"
           THEN csv_block' = Some(r.value) /\ pc' = "csv" /\ exc' = exc
           ELSE csv_block' = csv_block /\ pc' = "crashed" /\ exc' = r.exc
    /\ UNCHANGED <<client, config, form, user_prompt, output, page, api_calls,
                   api_result, parse_ok, steps>>

\* if csv_block: ... try: pd.read_csv ... except Exception: ...
RenderCsv ==
    /\ pc = "csv"
    /\ IF csv_block[1] = ""
       THEN page' = page /\ parse_ok' = parse_ok
       ELSE \E ok \in BOOLEAN :
               /\ parse_ok' = Some(ok)
               /\ page' = page \o CsvSection(csv_block[1], ok)
    /\ pc' = "right"
    /\ UNCHANGED <<client, config, form, user_prompt, output, csv_block, api_calls,
                   exc, api_result, steps>>

\* with right: st.download_button(... SYSTEM_TEXT + "\n\n" + build_user_prompt() ...)
RenderRight ==
    /\ pc = "right"
    /\ LET r == build_user_prompt
       IN  IF r.exc = "none"
           THEN page' = page \o CombinedDownload(r.value) /\ pc' = "preview" /\ exc' = exc
           ELSE page' = page /\ pc' = "crashed" /\ exc' = r.exc
    /\ UNCHANGED <<client, config, form, user_prompt, output, csv_block, api_calls,
                   api_result, parse_ok, steps>>

\* the two expanders; the run ends
RenderPreview ==
    /\ pc = "preview"
    /\ LET r == build_user_prompt
       IN  IF r.exc = "none"
           THEN page' = page \o Previews(r.value) /\ pc' = "idle" /\ exc' = exc
           ELSE page' = page /\ pc' = "crashed" /\ exc' = r.exc
    /\ UNCHANGED <<client, config, form, user_prompt, output, csv_block, api_calls,
                   api_result, parse_ok, steps>>

Next ==
    \/ EditAndRerun
    \/ ClickGenerate
    \/ Compose
    \/ CallOpenAI
    \/ RenderOutput
    \/ Extract
    \/ RenderCsv
    \/ RenderRight
    \/ RenderPreview

Spec == Init /\ [][Next]_vars

\* ---------------------------------------------------- the generation cycle

OnPage(e) == \E n \in 1..Len(page) : page[n] = e

Shown(el, label) == \E n \in 1..Len(page) : page[n].el = el /\ page[n].label = label

PortfolioDownloads ==
    {n \in 1..Len(page) : page[n].el = "download_button" /\ page[n].file = "portfolio.csv"}

AfterOutputShown == pc \in {"extract", "csv", "right", "preview", "idle"}

\* C7: when the chat-completion call raises, call_openai returns the warning
\* with the error's text; the call was made once, nothing propagates, and the
\* run goes on to show that string as the model output.
C7_ApiErrorBecomesWarning ==
    (api_result # None /\ api_result[1].kind = "raise") =>
        /\ exc = "none" /\ pc # "crashed"
        /\ api_calls = 1
        /\ output = Some("⚠ Error generating response: " \o api_result[1].text)
        /\ AfterOutputShown => OnPage(El("markdown", "", Text(output[1]), ""))

C7_Witness ==
    /\ pc = "idle"
    /\ api_result = Some([kind |-> "raise", text |-> "Connection error."])
    /\ output = Some("⚠ Error generating response: Connection error.")
    /\ OnPage(El("markdown", "", Text("⚠ Error generating response: Connection error."), ""))

NoClient == ~config.import_ok \/ config.api_key = "" \/ ~config.ctor_ok

\* C8: without a client (no key, failed import, failed construction) a run
\* makes no call and call_openai returns the fixed advisory; the combined
\* download (system text, blank line, composed user text) and the preview of
\* the composed prompt are on the page of every finished run.
C8_NoClientAdvisory ==
    NoClient =>
        /\ client = "None"
        /\ api_calls = 0 /\ api_result = None
        /\ output # None =>
              output = Some("⚠ OpenAI client not initialized. Add your API key in Secrets or env.")
        /\ pc = "idle" =>
              /\ build_user_prompt.exc = "none"
              /\ OnPage(El("download_button", "Download Combined Prompt (System + User)",
                           Utf8(SYSTEM_TEXT \o "\n\n" \o build_user_prompt.value),
                           "s2c_prompt_openai.txt"))
              /\ OnPage(El("code", "Show Composed User Prompt",
                           Text(build_user_prompt.value), ""))

C8_Witness ==
    /\ pc = "idle"
    /\ config.api_key = ""
    /\ client = "None"
    /\ output = Some(ADVISORY)
    /\ strengths_text = Note1
    /\ Shown("download_button", "Download Combined Prompt (System + User)")
    /\ Shown("code", "Show Composed User Prompt")

\* C9: in a generation run the Portfolio CSV section is on the page exactly
\* when the extracted block is not empty, with exactly one portfolio download:
\* the re-serialized table when pd.read_csv accepts the block, the raw block
\* when it does not; neither a miss nor a parse failure raises.
C9_PortfolioSection ==
    (pc \in {"right", "preview", "idle"} /\ csv_block # None) =>
        /\ exc = "none"
        /\ Shown("subheader", "Portfolio CSV") <=> csv_block[1] # ""
        /\ csv_block[1] = "" => PortfolioDownloads = {}
        /\ csv_block[1] # "" =>
              /\ parse_ok # None
              /\ Cardinality(PortfolioDownloads) = 1
              /\ \A n \in PortfolioDownloads :
                    page[n].data = IF parse_ok[1] THEN ToCsvUtf8(csv_block[1])
                                   ELSE Utf8(csv_block[1])

C9_Witness ==
    /\ pc = "idle"
    /\ csv_block = Some(TableC)
    /\ parse_ok = Some(FALSE)
    /\ OnPage(El("download_button", "Download portfolio.csv", Utf8(TableC), "portfolio.csv"))

\* the part of C10 that does not concern when the output is shown: a run starts the branch with no local
\* assigned and an empty page; the call comes after the composition; the
\* extractor is applied to the string call_openai returned in this run
CycleOrder ==
    /\ pc = "compose" =>
          user_prompt = None /\ output = None /\ csv_block = None /\ page = <<>>
    /\ pc = "call" => user_prompt # None /\ output = None /\ page = <<>>
    /\ api_calls > 0 => user_prompt # None
    /\ output # None => user_prompt # None
    /\ csv_block # None =>
          /\ output # None
          /\ csv_block[1] = extract_csv_block(output).value
    /\ Shown("subheader", "Portfolio CSV") =>
          csv_block # None /\ OnPage(El("code", "csv", Text(csv_block[1]), ""))

RECURSIVE CanonicalOrder(_, _)
CanonicalOrder(tiers, k) ==
    IF k > Len(ORG_TIERS) THEN <<>>
    ELSE (IF \E n \in 1..Len(tiers) : tiers[n] = ORG_TIERS[k]
          THEN <<ORG_TIERS[k]>> ELSE <<>>) \o CanonicalOrder(tiers, k + 1)

\* the texts the user typed, as they are put into the template
NotesTyped ==
    <<Strip(strengths_text), Strip(weaknesses_text),
      Strip(opportunities_text), Strip(threats_text)>>

TierPhrases == {"Organizational Tier(s) Impacted", "Org_Tier(s)"}

NoTiers == ~include_tiers \/ tiers_selected = <<>>

\* C4 as stated: without tiers (unchecked, or checked with none selected) the
\* three fragments are empty, the user text contains neither "Organizational
\* Tier(s) Impacted" nor "Org_Tier(s)", and it is the text composed with the
\* box unchecked.
C4_NoTierText ==
    (pc = "composed" /\ NoTiers) =>
        /\ tier_block_instruction = "" /\ tier_col_hint = "" /\ tier_guidance = ""
        /\ user_prompt # None
        /\ \A ph \in TierPhrases : ~Contains(user_prompt[1], ph)
        /\ user_prompt[1] = BuildUserPrompt(FALSE, <<>>, strengths_text, weaknesses_text,
                                            opportunities_text, threats_text).value

\* C4 amended: without tiers the three fragments are empty and the user text
\* is the text composed with the box unchecked; neither phrase comes from the
\* template or the fragments: the user text contains one only when a note
\* typed by the user contains it.
C4_NoTierTextFromTemplate ==
    (pc = "composed" /\ NoTiers) =>
        /\ tier_block_instruction = "" /\ tier_col_hint = "" /\ tier_guidance = ""
        /\ user_prompt # None
        /\ \A ph \in TierPhrases :
              Contains(user_prompt[1], ph) =>
                  \E n \in 1..Len(NotesTyped) : Contains(NotesTyped[n], ph)
        /\ user_prompt[1] = BuildUserPrompt(FALSE, <<>>, strengths_text, weaknesses_text,
                                            opportunities_text, threats_text).value

C4_Witness ==
    /\ pc = "composed"
    /\ include_tiers /\ tiers_selected = <<>>
    /\ strengths_text = Note1
    /\ user_prompt # None
    /\ \A ph \in TierPhrases : ~Contains(user_prompt[1], ph)

\* C5: with tiers selected, the guidance lists them joined by " > " in the
\* order of ORG_TIERS, whatever the order of selection.
C5_CanonicalTierOrder ==
    (pc = "composed" /\ include_tiers /\ tiers_selected # <<>>) =>
        /\ user_prompt # None
        /\ Contains(user_prompt[1],
                    "- Selected tiers (high → low): "
                    \o Join(" > ", CanonicalOrder(tiers_selected, 1)) \o "\n")

Count(s, h) == Cardinality(Occurrences(s, h))

\* C6: composition raises nothing; the four trimmed notes stand unaltered in
\* their sections, also when they hold "{", "}" or "%" or are all empty; every
\* brace of the result is a brace of a note, so no field of the template is
\* left in it.
C6_NotesVerbatim ==
    pc = "composed" =>
        /\ exc = "none"
        /\ user_prompt # None
        /\ Contains(user_prompt[1],
                    "\n\nInput Notes:\nStrengths:\n" \o NotesTyped[1]
                    \o "\n\nWeaknesses:\n" \o NotesTyped[2]
                    \o "\n\nOpportunities:\n" \o NotesTyped[3]
                    \o "\n\nThreats:\n" \o NotesTyped[4]
                    \o "\n\nTasks:\n")
        /\ \A b \in {"{", "}"} :
              Count(user_prompt[1], b)
                  = Count(NotesTyped[1], b) + Count(NotesTyped[2], b)
                    + Count(NotesTyped[3], b) + Count(NotesTyped[4], b)

C6_Witness ==
    /\ pc = "composed"
    /\ exc = "none"
    /\ strengths_text = Note1
    /\ threats_text = Note2
    /\ Contains(user_prompt[1], "Strengths:\nApprovals late {SLA}, 100% manual\n\nWeaknesses:")
    /\ Contains(user_prompt[1], "Threats:\n{region} has no Org_Tier(s) owner\n\nTasks:")

\* the first header of the priority list (a), (b), (c) that occurs in text
MatchedHeader(text) ==
    IF Contains(text, HeaderA) THEN HeaderA
    ELSE IF Contains(text, HeaderB) THEN HeaderB ELSE HeaderC

HasHeader(text) ==
    Contains(text, HeaderA) \/ Contains(text, HeaderB) \/ Contains(text, HeaderC)

\* C1: the headers are tried in the order (a), (b), (c) and the result starts
\* at the first occurrence of the first of them that occurs in the text; a
\* text holding header (a) yields a block that starts at header (a), also
\* when header (c) occurs earlier in the text.
C1_PriorityOrder ==
    (pc = "extracted" /\ output # None /\ HasHeader(output[1])) =>
        LET text == output[1]
            h == MatchedHeader(text)
            i == Min(Occurrences(text, h))
        IN  /\ csv_block # None
            /\ SubSeq(csv_block[1], 1, Len(h)) = h
            /\ SubSeq(text, i, i + Len(csv_block[1]) - 1) = csv_block[1]
            /\ Contains(text, HeaderA) => SubSeq(csv_block[1], 1, Len(HeaderA)) = HeaderA

C1_Witness ==
    /\ pc = "extracted"
    /\ output # None
    /\ Contains(output[1], HeaderA)
    /\ Contains(output[1], HeaderC)
    /\ Index(output[1], HeaderC) < Index(output[1], HeaderA)
    /\ csv_block # None
    /\ SubSeq(csv_block[1], 1, Len(HeaderA)) = HeaderA

\* C2: for a text with a known header the result is the text from the first
\* occurrence of the matched header up to, not including, the first two
\* consecutive newlines after it (or the end of the text), with surrounding
\* whitespace removed; header (c), two rows, a blank line and prose give the
\* header and the two rows.
C2_BlockUpToBlankLine ==
    (pc = "extracted" /\ output # None /\ HasHeader(output[1])) =>
        LET text == output[1]
            i == Min(Occurrences(text, MatchedHeader(text)))
            breaks == {j \in Occurrences(text, "\n\n") : j >= i}
            stop == IF breaks = {} THEN Len(text) + 1 ELSE Min(breaks)
            raw == SubSeq(text, i, stop - 1)
            res == csv_block[1]
        IN  /\ csv_block # None
            /\ SubSeq(raw, 1, Len(res)) = res
            /\ AllWhitespace(SubSeq(raw, Len(res) + 1, Len(raw)))
            /\ res # "" /\ SubSeq(res, Len(res), Len(res)) \notin Whitespace
            /\ ~Contains(res, "\n\n")
            /\ text = TableC \o "\n\n" \o Prose => res = TableC

C2_Witness ==
    /\ pc = "extracted"
    /\ output = Some(TableC \o "\n\n" \o Prose)
    /\ csv_block = Some(TableC)

\* C3: extract_csv_block raises nothing; it returns "" for an absent or empty
\* text and for every text without a known header, and a non-empty block for every
\* text with one.
C3_EmptyIffNoHeader ==
    pc = "extracted" =>
        /\ exc = "none"
        /\ csv_block # None
        /\ output = None => csv_block[1] = ""
        /\ output # None =>
              /\ (csv_block[1] = "") <=> ~HasHeader(output[1])
              /\ output[1] = "" => csv_block[1] = ""

C3_Witness ==
    /\ pc = "extracted"
    /\ output # None
    /\ output[1] # ""
    /\ ~HasHeader(output[1])
    /\ csv_block = Some("")

====
